---- MODULE Spec2Model ----
(***************************************************************************)
(* The isosurface extractor of MarchingCubes (Isosurface.cpp) and the two   *)
(* calls the host makes on it (GameState.cpp): calculate, the build, and    *)
(* update.                                                                  *)
(*                                                                          *)
(* Numbers.  The program computes in 32-bit floats.  Here a float is a      *)
(* fixed-point number: a coordinate is an integer number of world units,    *)
(* a scalar value (a potential, an interpolation ratio, a normal            *)
(* component) is an integer number of 1/VQ.  A quotient is rounded to the   *)
(* nearest such number, symmetrically in the sign, as the float operations  *)
(* round to the nearest float.                                              *)
(*                                                                          *)
(* Isosurface.h and the skeleton node classes are not among the sources.    *)
(* What the model takes from them follows the specification's data model:   *)
(* the sphere node, the lookup tables (those of the marching cubes          *)
(* reference implementation), the enumeration, a Cell whose iFlagIndex      *)
(* starts at 0, and a VertexKey that compares equal exactly for equal       *)
(* positions.                                                               *)
(***************************************************************************)
EXTENDS Integers, Sequences, FiniteSets, TLC

VARIABLES
  mSkeleton,          \* std::vector<SkeletonNode*>: the nodes of the last call
  mCubeSize,          \* float
  mBlendingFunction,  \* BlendingFunction
  mTargetValue,       \* float, in 1/VQ
  mVertices,          \* std::vector<Ogre::Vector3>
  mNormals,           \* std::vector<Ogre::Vector3>
  mTriangles,         \* std::vector<IndexedTriangle>
  mVertexHash,        \* IndexBuffer: VertexKey -> index
  mExtendsFrom,       \* Ogre::Vector3
  mExtendsTo,         \* Ogre::Vector3
  aborted,            \* the process died: a failed assert, an uncaught exception
  lastCall,           \* the call that returned last: "none", "calculate", "update"
  nUpdates,           \* update calls since the last calculate
  scalarLog           \* generateObject's local scalarField of the last call

vars == << mSkeleton, mCubeSize, mBlendingFunction, mTargetValue, mVertices,
           mNormals, mTriangles, mVertexHash, mExtendsFrom, mExtendsTo,
           aborted, lastCall, nUpdates, scalarLog >>

(***************************************************************************)
(* Bounds and resolution of the model                                       *)
(***************************************************************************)
\* update calls explored after one calculate
MaxUpdates == 2

\* a scalar value is an integer number of 1/VQ
VQ == 1000

\* FLT_MAX, as the largest magnitude a coordinate can take
FLT_MAX == 1000000

(***************************************************************************)
(* Vectors                                                                  *)
(***************************************************************************)
Vector3(x, y, z) == << x, y, z >>

VAdd(a, b) == << a[1] + b[1], a[2] + b[2], a[3] + b[3] >>

VSub(a, b) == << a[1] - b[1], a[2] - b[2], a[3] - b[3] >>

Abs(n) == IF n < 0 THEN -n ELSE n

Sgn(n) == IF n < 0 THEN -1 ELSE IF n > 0 THEN 1 ELSE 0

\* n / d rounded to the nearest integer, halves away from zero; d > 0
QuotR(n, d) == Sgn(n) * ((2 * Abs(n) + d) \div (2 * d))

RECURSIVE SqrtSearch(_, _, _)
SqrtSearch(n, lo, hi) ==
  IF lo >= hi THEN lo
  ELSE LET mid == (lo + hi + 1) \div 2
       IN  IF mid * mid <= n THEN SqrtSearch(n, mid, hi)
                             ELSE SqrtSearch(n, lo, mid - 1)

\* the integer part of the square root of n >= 0
ISqrt(n) == SqrtSearch(n, 0, 2 * VQ)

\* Ogre::Vector3::normalise: scale to unit length (VQ), leave a zero vector alone
normalise(v) ==
  LET len == ISqrt(v[1] * v[1] + v[2] * v[2] + v[3] * v[3])
  IN  IF len > 0
      THEN << QuotR(v[1] * VQ, len), QuotR(v[2] * VQ, len), QuotR(v[3] * VQ, len) >>
      ELSE v

(***************************************************************************)
(* Skeleton nodes and the blending enumeration                              *)
(***************************************************************************)
\* SphereNode(center, radius): extents center -/+ radius
SphereNode(c, r) ==
  [ center      |-> c,
    radius      |-> r,
    extendsFrom |-> << c[1] - r, c[2] - r, c[3] - r >>,
    extendsTo   |-> << c[1] + r, c[2] + r, c[3] + r >> ]

\* the square of SphereNode::getDistanceTo(pos), the Euclidean distance to the center
getDistanceToSq(node, pos) ==
  LET d == VSub(pos, node.center)
  IN  d[1] * d[1] + d[2] * d[2] + d[3] * d[3]

\* enum BlendingFunction { SPORE, ..., NONE }
SPORE == 0

NONE == 1

(***************************************************************************)
(* Lookup tables                                                            *)
(***************************************************************************)
\* cubeOffsets[8][3]: the corners of a cell; entry i+1 is corner i
cubeOffsets ==
  << <<0,0,0>>, <<1,0,0>>, <<1,1,0>>, <<0,1,0>>,
     <<0,0,1>>, <<1,0,1>>, <<1,1,1>>, <<0,1,1>> >>

\* a2iEdgeConnection[12][2]: the two corners of each edge; entry e+1 is edge e
a2iEdgeConnection ==
  << <<0,1>>, <<1,2>>, <<2,3>>, <<3,0>>,
     <<4,5>>, <<5,6>>, <<6,7>>, <<7,4>>,
     <<0,4>>, <<1,5>>, <<2,6>>, <<3,7>> >>

(* aiCubeEdgeFlags[256]: for each corner classification, the 12-bit mask of the
   cube edges the surface crosses. Entry i+1 holds the value for iFlagIndex = i. *)
aiCubeEdgeFlags ==
  << 0,  265,  515,  778, 1030, 1295, 1541, 1804, 2060, 2309, 2575, 2822, 3082, 3331, 3593, 3840,
         400,  153,  915,  666, 1430, 1183, 1941, 1692, 2460, 2197, 2975, 2710, 3482, 3219, 3993, 3728,
         560,  825,   51,  314, 1590, 1855, 1077, 1340, 2620, 2869, 2111, 2358, 3642, 3891, 3129, 3376,
         928,  681,  419,  170, 1958, 1711, 1445, 1196, 2988, 2725, 2479, 2214, 4010, 3747, 3497, 3232,
        1120, 1385, 1635, 1898,  102,  367,  613,  876, 3180, 3429, 3695, 3942, 2154, 2403, 2665, 2912,
        1520, 1273, 2035, 1786,  502,  255, 1013,  764, 3580, 3317, 4095, 3830, 2554, 2291, 3065, 2800,
        1616, 1881, 1107, 1370,  598,  863,   85,  348, 3676, 3925, 3167, 3414, 2650, 2899, 2137, 2384,
        1984, 1737, 1475, 1226,  966,  719,  453,  204, 4044, 3781, 3535, 3270, 3018, 2755, 2505, 2240,
        2240, 2505, 2755, 3018, 3270, 3535, 3781, 4044,  204,  453,  719,  966, 1226, 1475, 1737, 1984,
        2384, 2137, 2899, 2650, 3414, 3167, 3925, 3676,  348,   85,  863,  598, 1370, 1107, 1881, 1616,
        2800, 3065, 2291, 2554, 3830, 4095, 3317, 3580,  764, 1013,  255,  502, 1786, 2035, 1273, 1520,
        2912, 2665, 2403, 2154, 3942, 3695, 3429, 3180,  876,  613,  367,  102, 1898, 1635, 1385, 1120,
        3232, 3497, 3747, 4010, 2214, 2479, 2725, 2988, 1196, 1445, 1711, 1958,  170,  419,  681,  928,
        3376, 3129, 3891, 3642, 2358, 2111, 2869, 2620, 1340, 1077, 1855, 1590,  314,   51,  825,  560,
        3728, 3993, 3219, 3482, 2710, 2975, 2197, 2460, 1692, 1941, 1183, 1430,  666,  915,  153,  400,
        3840, 3593, 3331, 3082, 2822, 2575, 2309, 2060, 1804, 1541, 1295, 1030,  778,  515,  265,    0 >>

(* a2iTriangleConnectionTable[256][16]: up to five triangles per classification,
   three edge numbers each; -1 ends the list and fills the unused slots.
   Row i+1 holds the row for iFlagIndex = i; slot j+1 holds entry j. *)
a2iTriangleConnectionTable ==
  << <<-1,-1,-1,-1,-1,-1,-1,-1,-1,-1,-1,-1,-1,-1,-1,-1>>,
     <<0,8,3,-1,-1,-1,-1,-1,-1,-1,-1,-1,-1,-1,-1,-1>>,
     <<0,1,9,-1,-1,-1,-1,-1,-1,-1,-1,-1,-1,-1,-1,-1>>,
     <<1,8,3,9,8,1,-1,-1,-1,-1,-1,-1,-1,-1,-1,-1>>,
     <<1,2,10,-1,-1,-1,-1,-1,-1,-1,-1,-1,-1,-1,-1,-1>>,
     <<0,8,3,1,2,10,-1,-1,-1,-1,-1,-1,-1,-1,-1,-1>>,
     <<9,2,10,0,2,9,-1,-1,-1,-1,-1,-1,-1,-1,-1,-1>>,
     <<2,8,3,2,10,8,10,9,8,-1,-1,-1,-1,-1,-1,-1>>,
     <<3,11,2,-1,-1,-1,-1,-1,-1,-1,-1,-1,-1,-1,-1,-1>>,
     <<0,11,2,8,11,0,-1,-1,-1,-1,-1,-1,-1,-1,-1,-1>>,
     <<1,9,0,2,3,11,-1,-1,-1,-1,-1,-1,-1,-1,-1,-1>>,
     <<1,11,2,1,9,11,9,8,11,-1,-1,-1,-1,-1,-1,-1>>,
     <<3,10,1,11,10,3,-1,-1,-1,-1,-1,-1,-1,-1,-1,-1>>,
     <<0,10,1,0,8,10,8,11,10,-1,-1,-1,-1,-1,-1,-1>>,
     <<3,9,0,3,11,9,11,10,9,-1,-1,-1,-1,-1,-1,-1>>,
     <<9,8,10,10,8,11,-1,-1,-1,-1,-1,-1,-1,-1,-1,-1>>,
     <<4,7,8,-1,-1,-1,-1,-1,-1,-1,-1,-1,-1,-1,-1,-1>>,
     <<4,3,0,7,3,4,-1,-1,-1,-1,-1,-1,-1,-1,-1,-1>>,
     <<0,1,9,8,4,7,-1,-1,-1,-1,-1,-1,-1,-1,-1,-1>>,
     <<4,1,9,4,7,1,7,3,1,-1,-1,-1,-1,-1,-1,-1>>,
     <<1,2,10,8,4,7,-1,-1,-1,-1,-1,-1,-1,-1,-1,-1>>,
     <<3,4,7,3,0,4,1,2,10,-1,-1,-1,-1,-1,-1,-1>>,
     <<9,2,10,9,0,2,8,4,7,-1,-1,-1,-1,-1,-1,-1>>,
     <<2,10,9,2,9,7,2,7,3,7,9,4,-1,-1,-1,-1>>,
     <<8,4,7,3,11,2,-1,-1,-1,-1,-1,-1,-1,-1,-1,-1>>,
     <<11,4,7,11,2,4,2,0,4,-1,-1,-1,-1,-1,-1,-1>>,
     <<9,0,1,8,4,7,2,3,11,-1,-1,-1,-1,-1,-1,-1>>,
     <<4,7,11,9,4,11,9,11,2,9,2,1,-1,-1,-1,-1>>,
     <<3,10,1,3,11,10,7,8,4,-1,-1,-1,-1,-1,-1,-1>>,
     <<1,11,10,1,4,11,1,0,4,7,11,4,-1,-1,-1,-1>>,
     <<4,7,8,9,0,11,9,11,10,11,0,3,-1,-1,-1,-1>>,
     <<4,7,11,4,11,9,9,11,10,-1,-1,-1,-1,-1,-1,-1>>,
     <<9,5,4,-1,-1,-1,-1,-1,-1,-1,-1,-1,-1,-1,-1,-1>>,
     <<9,5,4,0,8,3,-1,-1,-1,-1,-1,-1,-1,-1,-1,-1>>,
     <<0,5,4,1,5,0,-1,-1,-1,-1,-1,-1,-1,-1,-1,-1>>,
     <<8,5,4,8,3,5,3,1,5,-1,-1,-1,-1,-1,-1,-1>>,
     <<1,2,10,9,5,4,-1,-1,-1,-1,-1,-1,-1,-1,-1,-1>>,
     <<3,0,8,1,2,10,4,9,5,-1,-1,-1,-1,-1,-1,-1>>,
     <<5,2,10,5,4,2,4,0,2,-1,-1,-1,-1,-1,-1,-1>>,
     <<2,10,5,3,2,5,3,5,4,3,4,8,-1,-1,-1,-1>>,
     <<9,5,4,2,3,11,-1,-1,-1,-1,-1,-1,-1,-1,-1,-1>>,
     <<0,11,2,0,8,11,4,9,5,-1,-1,-1,-1,-1,-1,-1>>,
     <<0,5,4,0,1,5,2,3,11,-1,-1,-1,-1,-1,-1,-1>>,
     <<2,1,5,2,5,8,2,8,11,4,8,5,-1,-1,-1,-1>>,
     <<10,3,11,10,1,3,9,5,4,-1,-1,-1,-1,-1,-1,-1>>,
     <<4,9,5,0,8,1,8,10,1,8,11,10,-1,-1,-1,-1>>,
     <<5,4,0,5,0,11,5,11,10,11,0,3,-1,-1,-1,-1>>,
     <<5,4,8,5,8,10,10,8,11,-1,-1,-1,-1,-1,-1,-1>>,
     <<9,7,8,5,7,9,-1,-1,-1,-1,-1,-1,-1,-1,-1,-1>>,
     <<9,3,0,9,5,3,5,7,3,-1,-1,-1,-1,-1,-1,-1>>,
     <<0,7,8,0,1,7,1,5,7,-1,-1,-1,-1,-1,-1,-1>>,
     <<1,5,3,3,5,7,-1,-1,-1,-1,-1,-1,-1,-1,-1,-1>>,
     <<9,7,8,9,5,7,10,1,2,-1,-1,-1,-1,-1,-1,-1>>,
     <<10,1,2,9,5,0,5,3,0,5,7,3,-1,-1,-1,-1>>,
     <<8,0,2,8,2,5,8,5,7,10,5,2,-1,-1,-1,-1>>,
     <<2,10,5,2,5,3,3,5,7,-1,-1,-1,-1,-1,-1,-1>>,
     <<7,9,5,7,8,9,3,11,2,-1,-1,-1,-1,-1,-1,-1>>,
     <<9,5,7,9,7,2,9,2,0,2,7,11,-1,-1,-1,-1>>,
     <<2,3,11,0,1,8,1,7,8,1,5,7,-1,-1,-1,-1>>,
     <<11,2,1,11,1,7,7,1,5,-1,-1,-1,-1,-1,-1,-1>>,
     <<9,5,8,8,5,7,10,1,3,10,3,11,-1,-1,-1,-1>>,
     <<5,7,0,5,0,9,7,11,0,1,0,10,11,10,0,-1>>,
     <<11,10,0,11,0,3,10,5,0,8,0,7,5,7,0,-1>>,
     <<11,10,5,7,11,5,-1,-1,-1,-1,-1,-1,-1,-1,-1,-1>>,
     <<10,6,5,-1,-1,-1,-1,-1,-1,-1,-1,-1,-1,-1,-1,-1>>,
     <<0,8,3,5,10,6,-1,-1,-1,-1,-1,-1,-1,-1,-1,-1>>,
     <<9,0,1,5,10,6,-1,-1,-1,-1,-1,-1,-1,-1,-1,-1>>,
     <<1,8,3,1,9,8,5,10,6,-1,-1,-1,-1,-1,-1,-1>>,
     <<1,6,5,2,6,1,-1,-1,-1,-1,-1,-1,-1,-1,-1,-1>>,
     <<1,6,5,1,2,6,3,0,8,-1,-1,-1,-1,-1,-1,-1>>,
     <<9,6,5,9,0,6,0,2,6,-1,-1,-1,-1,-1,-1,-1>>,
     <<5,9,8,5,8,2,5,2,6,3,2,8,-1,-1,-1,-1>>,
     <<2,3,11,10,6,5,-1,-1,-1,-1,-1,-1,-1,-1,-1,-1>>,
     <<11,0,8,11,2,0,10,6,5,-1,-1,-1,-1,-1,-1,-1>>,
     <<0,1,9,2,3,11,5,10,6,-1,-1,-1,-1,-1,-1,-1>>,
     <<5,10,6,1,9,2,9,11,2,9,8,11,-1,-1,-1,-1>>,
     <<6,3,11,6,5,3,5,1,3,-1,-1,-1,-1,-1,-1,-1>>,
     <<0,8,11,0,11,5,0,5,1,5,11,6,-1,-1,-1,-1>>,
     <<3,11,6,0,3,6,0,6,5,0,5,9,-1,-1,-1,-1>>,
     <<6,5,9,6,9,11,11,9,8,-1,-1,-1,-1,-1,-1,-1>>,
     <<5,10,6,4,7,8,-1,-1,-1,-1,-1,-1,-1,-1,-1,-1>>,
     <<4,3,0,4,7,3,6,5,10,-1,-1,-1,-1,-1,-1,-1>>,
     <<1,9,0,5,10,6,8,4,7,-1,-1,-1,-1,-1,-1,-1>>,
     <<10,6,5,1,9,7,1,7,3,7,9,4,-1,-1,-1,-1>>,
     <<6,1,2,6,5,1,4,7,8,-1,-1,-1,-1,-1,-1,-1>>,
     <<1,2,5,5,2,6,3,0,4,3,4,7,-1,-1,-1,-1>>,
     <<8,4,7,9,0,5,0,6,5,0,2,6,-1,-1,-1,-1>>,
     <<7,3,9,7,9,4,3,2,9,5,9,6,2,6,9,-1>>,
     <<3,11,2,7,8,4,10,6,5,-1,-1,-1,-1,-1,-1,-1>>,
     <<5,10,6,4,7,2,4,2,0,2,7,11,-1,-1,-1,-1>>,
     <<0,1,9,4,7,8,2,3,11,5,10,6,-1,-1,-1,-1>>,
     <<9,2,1,9,11,2,9,4,11,7,11,4,5,10,6,-1>>,
     <<8,4,7,3,11,5,3,5,1,5,11,6,-1,-1,-1,-1>>,
     <<5,1,11,5,11,6,1,0,11,7,11,4,0,4,11,-1>>,
     <<0,5,9,0,6,5,0,3,6,11,6,3,8,4,7,-1>>,
     <<6,5,9,6,9,11,4,7,9,7,11,9,-1,-1,-1,-1>>,
     <<10,4,9,6,4,10,-1,-1,-1,-1,-1,-1,-1,-1,-1,-1>>,
     <<4,10,6,4,9,10,0,8,3,-1,-1,-1,-1,-1,-1,-1>>,
     <<10,0,1,10,6,0,6,4,0,-1,-1,-1,-1,-1,-1,-1>>,
     <<8,3,1,8,1,6,8,6,4,6,1,10,-1,-1,-1,-1>>,
     <<1,4,9,1,2,4,2,6,4,-1,-1,-1,-1,-1,-1,-1>>,
     <<3,0,8,1,2,9,2,4,9,2,6,4,-1,-1,-1,-1>>,
     <<0,2,4,4,2,6,-1,-1,-1,-1,-1,-1,-1,-1,-1,-1>>,
     <<8,3,2,8,2,4,4,2,6,-1,-1,-1,-1,-1,-1,-1>>,
     <<10,4,9,10,6,4,11,2,3,-1,-1,-1,-1,-1,-1,-1>>,
     <<0,8,2,2,8,11,4,9,10,4,10,6,-1,-1,-1,-1>>,
     <<3,11,2,0,1,6,0,6,4,6,1,10,-1,-1,-1,-1>>,
     <<6,4,1,6,1,10,4,8,1,2,1,11,8,11,1,-1>>,
     <<9,6,4,9,3,6,9,1,3,11,6,3,-1,-1,-1,-1>>,
     <<8,11,1,8,1,0,11,6,1,9,1,4,6,4,1,-1>>,
     <<3,11,6,3,6,0,0,6,4,-1,-1,-1,-1,-1,-1,-1>>,
     <<6,4,8,11,6,8,-1,-1,-1,-1,-1,-1,-1,-1,-1,-1>>,
     <<7,10,6,7,8,10,8,9,10,-1,-1,-1,-1,-1,-1,-1>>,
     <<0,7,3,0,10,7,0,9,10,6,7,10,-1,-1,-1,-1>>,
     <<10,6,7,1,10,7,1,7,8,1,8,0,-1,-1,-1,-1>>,
     <<10,6,7,10,7,1,1,7,3,-1,-1,-1,-1,-1,-1,-1>>,
     <<1,2,6,1,6,8,1,8,9,8,6,7,-1,-1,-1,-1>>,
     <<2,6,9,2,9,1,6,7,9,0,9,3,7,3,9,-1>>,
     <<7,8,0,7,0,6,6,0,2,-1,-1,-1,-1,-1,-1,-1>>,
     <<7,3,2,6,7,2,-1,-1,-1,-1,-1,-1,-1,-1,-1,-1>>,
     <<2,3,11,10,6,8,10,8,9,8,6,7,-1,-1,-1,-1>>,
     <<2,0,7,2,7,11,0,9,7,6,7,10,9,10,7,-1>>,
     <<1,8,0,1,7,8,1,10,7,6,7,10,2,3,11,-1>>,
     <<11,2,1,11,1,7,10,6,1,6,7,1,-1,-1,-1,-1>>,
     <<8,9,6,8,6,7,9,1,6,11,6,3,1,3,6,-1>>,
     <<0,9,1,11,6,7,-1,-1,-1,-1,-1,-1,-1,-1,-1,-1>>,
     <<7,8,0,7,0,6,3,11,0,11,6,0,-1,-1,-1,-1>>,
     <<7,11,6,-1,-1,-1,-1,-1,-1,-1,-1,-1,-1,-1,-1,-1>>,
     <<7,6,11,-1,-1,-1,-1,-1,-1,-1,-1,-1,-1,-1,-1,-1>>,
     <<3,0,8,11,7,6,-1,-1,-1,-1,-1,-1,-1,-1,-1,-1>>,
     <<0,1,9,11,7,6,-1,-1,-1,-1,-1,-1,-1,-1,-1,-1>>,
     <<8,1,9,8,3,1,11,7,6,-1,-1,-1,-1,-1,-1,-1>>,
     <<10,1,2,6,11,7,-1,-1,-1,-1,-1,-1,-1,-1,-1,-1>>,
     <<1,2,10,3,0,8,6,11,7,-1,-1,-1,-1,-1,-1,-1>>,
     <<2,9,0,2,10,9,6,11,7,-1,-1,-1,-1,-1,-1,-1>>,
     <<6,11,7,2,10,3,10,8,3,10,9,8,-1,-1,-1,-1>>,
     <<7,2,3,6,2,7,-1,-1,-1,-1,-1,-1,-1,-1,-1,-1>>,
     <<7,0,8,7,6,0,6,2,0,-1,-1,-1,-1,-1,-1,-1>>,
     <<2,7,6,2,3,7,0,1,9,-1,-1,-1,-1,-1,-1,-1>>,
     <<1,6,2,1,8,6,1,9,8,8,7,6,-1,-1,-1,-1>>,
     <<10,7,6,10,1,7,1,3,7,-1,-1,-1,-1,-1,-1,-1>>,
     <<10,7,6,1,7,10,1,8,7,1,0,8,-1,-1,-1,-1>>,
     <<0,3,7,0,7,10,0,10,9,6,10,7,-1,-1,-1,-1>>,
     <<7,6,10,7,10,8,8,10,9,-1,-1,-1,-1,-1,-1,-1>>,
     <<6,8,4,11,8,6,-1,-1,-1,-1,-1,-1,-1,-1,-1,-1>>,
     <<3,6,11,3,0,6,0,4,6,-1,-1,-1,-1,-1,-1,-1>>,
     <<8,6,11,8,4,6,9,0,1,-1,-1,-1,-1,-1,-1,-1>>,
     <<9,4,6,9,6,3,9,3,1,11,3,6,-1,-1,-1,-1>>,
     <<6,8,4,6,11,8,2,10,1,-1,-1,-1,-1,-1,-1,-1>>,
     <<1,2,10,3,0,11,0,6,11,0,4,6,-1,-1,-1,-1>>,
     <<4,11,8,4,6,11,0,2,9,2,10,9,-1,-1,-1,-1>>,
     <<10,9,3,10,3,2,9,4,3,11,3,6,4,6,3,-1>>,
     <<8,2,3,8,4,2,4,6,2,-1,-1,-1,-1,-1,-1,-1>>,
     <<0,4,2,4,6,2,-1,-1,-1,-1,-1,-1,-1,-1,-1,-1>>,
     <<1,9,0,2,3,4,2,4,6,4,3,8,-1,-1,-1,-1>>,
     <<1,9,4,1,4,2,2,4,6,-1,-1,-1,-1,-1,-1,-1>>,
     <<8,1,3,8,6,1,8,4,6,6,10,1,-1,-1,-1,-1>>,
     <<10,1,0,10,0,6,6,0,4,-1,-1,-1,-1,-1,-1,-1>>,
     <<4,6,3,4,3,8,6,10,3,0,3,9,10,9,3,-1>>,
     <<10,9,4,6,10,4,-1,-1,-1,-1,-1,-1,-1,-1,-1,-1>>,
     <<4,9,5,7,6,11,-1,-1,-1,-1,-1,-1,-1,-1,-1,-1>>,
     <<0,8,3,4,9,5,11,7,6,-1,-1,-1,-1,-1,-1,-1>>,
     <<5,0,1,5,4,0,7,6,11,-1,-1,-1,-1,-1,-1,-1>>,
     <<11,7,6,8,3,4,3,5,4,3,1,5,-1,-1,-1,-1>>,
     <<9,5,4,10,1,2,7,6,11,-1,-1,-1,-1,-1,-1,-1>>,
     <<6,11,7,1,2,10,0,8,3,4,9,5,-1,-1,-1,-1>>,
     <<7,6,11,5,4,10,4,2,10,4,0,2,-1,-1,-1,-1>>,
     <<3,4,8,3,5,4,3,2,5,10,5,2,11,7,6,-1>>,
     <<7,2,3,7,6,2,5,4,9,-1,-1,-1,-1,-1,-1,-1>>,
     <<9,5,4,0,8,6,0,6,2,6,8,7,-1,-1,-1,-1>>,
     <<3,6,2,3,7,6,1,5,0,5,4,0,-1,-1,-1,-1>>,
     <<6,2,8,6,8,7,2,1,8,4,8,5,1,5,8,-1>>,
     <<9,5,4,10,1,6,1,7,6,1,3,7,-1,-1,-1,-1>>,
     <<1,6,10,1,7,6,1,0,7,8,7,0,9,5,4,-1>>,
     <<4,0,10,4,10,5,0,3,10,6,10,7,3,7,10,-1>>,
     <<7,6,10,7,10,8,5,4,10,4,8,10,-1,-1,-1,-1>>,
     <<6,9,5,6,11,9,11,8,9,-1,-1,-1,-1,-1,-1,-1>>,
     <<3,6,11,0,6,3,0,5,6,0,9,5,-1,-1,-1,-1>>,
     <<0,11,8,0,5,11,0,1,5,5,6,11,-1,-1,-1,-1>>,
     <<6,11,3,6,3,5,5,3,1,-1,-1,-1,-1,-1,-1,-1>>,
     <<1,2,10,9,5,11,9,11,8,11,5,6,-1,-1,-1,-1>>,
     <<0,11,3,0,6,11,0,9,6,5,6,9,1,2,10,-1>>,
     <<11,8,5,11,5,6,8,0,5,10,5,2,0,2,5,-1>>,
     <<6,11,3,6,3,5,2,10,3,10,5,3,-1,-1,-1,-1>>,
     <<5,8,9,5,2,8,5,6,2,3,8,2,-1,-1,-1,-1>>,
     <<9,5,6,9,6,0,0,6,2,-1,-1,-1,-1,-1,-1,-1>>,
     <<1,5,8,1,8,0,5,6,8,3,8,2,6,2,8,-1>>,
     <<1,5,6,2,1,6,-1,-1,-1,-1,-1,-1,-1,-1,-1,-1>>,
     <<1,3,6,1,6,10,3,8,6,5,6,9,8,9,6,-1>>,
     <<10,1,0,10,0,6,9,5,0,5,6,0,-1,-1,-1,-1>>,
     <<0,3,8,5,6,10,-1,-1,-1,-1,-1,-1,-1,-1,-1,-1>>,
     <<10,5,6,-1,-1,-1,-1,-1,-1,-1,-1,-1,-1,-1,-1,-1>>,
     <<11,5,10,7,5,11,-1,-1,-1,-1,-1,-1,-1,-1,-1,-1>>,
     <<11,5,10,11,7,5,8,3,0,-1,-1,-1,-1,-1,-1,-1>>,
     <<5,11,7,5,10,11,1,9,0,-1,-1,-1,-1,-1,-1,-1>>,
     <<10,7,5,10,11,7,9,8,1,8,3,1,-1,-1,-1,-1>>,
     <<11,1,2,11,7,1,7,5,1,-1,-1,-1,-1,-1,-1,-1>>,
     <<0,8,3,1,2,7,1,7,5,7,2,11,-1,-1,-1,-1>>,
     <<9,7,5,9,2,7,9,0,2,2,11,7,-1,-1,-1,-1>>,
     <<7,5,2,7,2,11,5,9,2,3,2,8,9,8,2,-1>>,
     <<2,5,10,2,3,5,3,7,5,-1,-1,-1,-1,-1,-1,-1>>,
     <<8,2,0,8,5,2,8,7,5,10,2,5,-1,-1,-1,-1>>,
     <<9,0,1,5,10,3,5,3,7,3,10,2,-1,-1,-1,-1>>,
     <<9,8,2,9,2,1,8,7,2,10,2,5,7,5,2,-1>>,
     <<1,3,5,3,7,5,-1,-1,-1,-1,-1,-1,-1,-1,-1,-1>>,
     <<0,8,7,0,7,1,1,7,5,-1,-1,-1,-1,-1,-1,-1>>,
     <<9,0,3,9,3,5,5,3,7,-1,-1,-1,-1,-1,-1,-1>>,
     <<9,8,7,5,9,7,-1,-1,-1,-1,-1,-1,-1,-1,-1,-1>>,
     <<5,8,4,5,10,8,10,11,8,-1,-1,-1,-1,-1,-1,-1>>,
     <<5,0,4,5,11,0,5,10,11,11,3,0,-1,-1,-1,-1>>,
     <<0,1,9,8,4,10,8,10,11,10,4,5,-1,-1,-1,-1>>,
     <<10,11,4,10,4,5,11,3,4,9,4,1,3,1,4,-1>>,
     <<2,5,1,2,8,5,2,11,8,4,5,8,-1,-1,-1,-1>>,
     <<0,4,11,0,11,3,4,5,11,2,11,1,5,1,11,-1>>,
     <<0,2,5,0,5,9,2,11,5,4,5,8,11,8,5,-1>>,
     <<9,4,5,2,11,3,-1,-1,-1,-1,-1,-1,-1,-1,-1,-1>>,
     <<2,5,10,3,5,2,3,4,5,3,8,4,-1,-1,-1,-1>>,
     <<5,10,2,5,2,4,4,2,0,-1,-1,-1,-1,-1,-1,-1>>,
     <<3,10,2,3,5,10,3,8,5,4,5,8,0,1,9,-1>>,
     <<5,10,2,5,2,4,1,9,2,9,4,2,-1,-1,-1,-1>>,
     <<8,4,5,8,5,3,3,5,1,-1,-1,-1,-1,-1,-1,-1>>,
     <<0,4,5,1,0,5,-1,-1,-1,-1,-1,-1,-1,-1,-1,-1>>,
     <<8,4,5,8,5,3,9,0,5,0,3,5,-1,-1,-1,-1>>,
     <<9,4,5,-1,-1,-1,-1,-1,-1,-1,-1,-1,-1,-1,-1,-1>>,
     <<4,11,7,4,9,11,9,10,11,-1,-1,-1,-1,-1,-1,-1>>,
     <<0,8,3,4,9,7,9,11,7,9,10,11,-1,-1,-1,-1>>,
     <<1,10,11,1,11,4,1,4,0,7,4,11,-1,-1,-1,-1>>,
     <<3,1,4,3,4,8,1,10,4,7,4,11,10,11,4,-1>>,
     <<4,11,7,9,11,4,9,2,11,9,1,2,-1,-1,-1,-1>>,
     <<9,7,4,9,11,7,9,1,11,2,11,1,0,8,3,-1>>,
     <<11,7,4,11,4,2,2,4,0,-1,-1,-1,-1,-1,-1,-1>>,
     <<11,7,4,11,4,2,8,3,4,3,2,4,-1,-1,-1,-1>>,
     <<2,9,10,2,7,9,2,3,7,7,4,9,-1,-1,-1,-1>>,
     <<9,10,7,9,7,4,10,2,7,8,7,0,2,0,7,-1>>,
     <<3,7,10,3,10,2,7,4,10,1,10,0,4,0,10,-1>>,
     <<1,10,2,8,7,4,-1,-1,-1,-1,-1,-1,-1,-1,-1,-1>>,
     <<4,9,1,4,1,7,7,1,3,-1,-1,-1,-1,-1,-1,-1>>,
     <<4,9,1,4,1,7,0,8,1,8,7,1,-1,-1,-1,-1>>,
     <<4,0,3,7,4,3,-1,-1,-1,-1,-1,-1,-1,-1,-1,-1>>,
     <<4,8,7,-1,-1,-1,-1,-1,-1,-1,-1,-1,-1,-1,-1,-1>>,
     <<9,10,8,10,11,8,-1,-1,-1,-1,-1,-1,-1,-1,-1,-1>>,
     <<3,0,9,3,9,11,11,9,10,-1,-1,-1,-1,-1,-1,-1>>,
     <<0,1,10,0,10,8,8,10,11,-1,-1,-1,-1,-1,-1,-1>>,
     <<3,1,10,11,3,10,-1,-1,-1,-1,-1,-1,-1,-1,-1,-1>>,
     <<1,2,11,1,11,9,9,11,8,-1,-1,-1,-1,-1,-1,-1>>,
     <<3,0,9,3,9,11,1,2,9,2,11,9,-1,-1,-1,-1>>,
     <<0,2,11,8,0,11,-1,-1,-1,-1,-1,-1,-1,-1,-1,-1>>,
     <<3,2,11,-1,-1,-1,-1,-1,-1,-1,-1,-1,-1,-1,-1,-1>>,
     <<2,3,8,2,8,10,10,8,9,-1,-1,-1,-1,-1,-1,-1>>,
     <<9,10,2,0,9,2,-1,-1,-1,-1,-1,-1,-1,-1,-1,-1>>,
     <<2,3,8,2,8,10,0,1,8,1,10,8,-1,-1,-1,-1>>,
     <<1,10,2,-1,-1,-1,-1,-1,-1,-1,-1,-1,-1,-1,-1,-1>>,
     <<1,3,8,9,1,8,-1,-1,-1,-1,-1,-1,-1,-1,-1,-1>>,
     <<0,9,1,-1,-1,-1,-1,-1,-1,-1,-1,-1,-1,-1,-1,-1>>,
     <<0,3,8,-1,-1,-1,-1,-1,-1,-1,-1,-1,-1,-1,-1,-1>>,
     <<-1,-1,-1,-1,-1,-1,-1,-1,-1,-1,-1,-1,-1,-1,-1,-1>> >>

(***************************************************************************)
(* The scalar field                                                         *)
(***************************************************************************)
(* One pass of IsoValue's loop body for one node.  With D the distance to   *)
(* the node and R its radius the code takes r = D / R and d = 10 R and,     *)
(* when r <= 1, adds (r^4 - 2 r^2 + 1) / (1 + d r^2); in D^2 and R that is  *)
(* (R^2 - D^2)^2 / (R^2 (R^2 + 10 R D^2)), and r <= 1 iff D^2 <= R^2.       *)
NodePotential(node, pos) ==
  LET R  == node.radius
      D2 == getDistanceToSq(node, pos)
  IN  IF D2 <= R * R
      THEN QuotR(VQ * (R * R - D2) * (R * R - D2), R * R * (R * R + 10 * R * D2))
      ELSE 0

(* IsoValue: the loop over mSkeleton ends with an unconditional break, so   *)
(* its body runs for node 0 alone.                                          *)
IsoValue(skeleton, pos) ==
  IF Len(skeleton) > 0 THEN 0 + NodePotential(skeleton[1], pos) ELSE 0

\* the six points getNormal samples, in the order x1, x2, y1, y2, z1, z2
NormalSamples(vertex, h) ==
  << Vector3(vertex[1] - h, vertex[2], vertex[3]),
     Vector3(vertex[1] + h, vertex[2], vertex[3]),
     Vector3(vertex[1], vertex[2] - h, vertex[3]),
     Vector3(vertex[1], vertex[2] + h, vertex[3]),
     Vector3(vertex[1], vertex[3], vertex[3] - h),
     Vector3(vertex[1], vertex[2], vertex[3] + h) >>

getNormal(skeleton, cubeSize, vertex) ==
  LET s   == NormalSamples(vertex, cubeSize)
      iso == [ i \in 1..6 |-> IsoValue(skeleton, s[i]) ]
  IN  normalise(<< iso[1] - iso[2], iso[3] - iso[4], iso[5] - iso[6] >>)

(***************************************************************************)
(* The voxel grid                                                           *)
(***************************************************************************)
getMapIndexWrongStride(x, y, z, width, height, depth) ==
  z * width + y * width + x

getMapIndex(x, y, z, width, height, depth) ==
  z * width * height + y * width + x

\* the scalarField vector as allocated: size slots, each -1, none written
NewScalarField(size) ==
  [ allocated |-> TRUE,
    field     |-> [ i \in 0..(size - 1) |-> -1 ],
    coords    |-> [ i \in 0..(size - 1) |-> << 0, 0, 0 >> ],
    writes    |-> [ i \in 0..(size - 1) |-> 0 ],
    assertOk  |-> TRUE,
    readsOk   |-> TRUE ]

\* no scalarField exists: generateObject was not called, or skipped its body
NoScalarField ==
  [ allocated |-> FALSE, field |-> << >>, coords |-> << >>, writes |-> << >>,
    assertOk  |-> TRUE, readsOk |-> TRUE ]

(* fillScalarField's loop nest: x runs fastest, then y, then z.  A slot     *)
(* that no longer holds -1 fails the assert, and the fill ends there.       *)
RECURSIVE FillX(_, _, _, _, _, _, _, _, _, _)
FillX(x, y, z, sf, skeleton, from, cubeSize, xAmount, yAmount, zAmount) ==
  IF ~sf.assertOk \/ x >= xAmount + 1 THEN sf
  ELSE LET coords == Vector3(from[1] + x * cubeSize,
                             from[2] + y * cubeSize,
                             from[3] + z * cubeSize)
           index == getMapIndex(x, y, z, xAmount + 1, yAmount + 1, zAmount + 1)
       IN  FillX(x + 1, y, z,
                 IF index \notin DOMAIN sf.field \/ sf.field[index] # -1
                 THEN [ sf EXCEPT !.assertOk = FALSE ]
                 ELSE [ sf EXCEPT !.field[index]  = IsoValue(skeleton, coords),
                                  !.coords[index] = coords,
                                  !.writes[index] = @ + 1 ],
                 skeleton, from, cubeSize, xAmount, yAmount, zAmount)

RECURSIVE FillY(_, _, _, _, _, _, _, _, _)
FillY(y, z, sf, skeleton, from, cubeSize, xAmount, yAmount, zAmount) ==
  IF ~sf.assertOk \/ y >= yAmount + 1 THEN sf
  ELSE FillY(y + 1, z,
             FillX(0, y, z, sf, skeleton, from, cubeSize, xAmount, yAmount, zAmount),
             skeleton, from, cubeSize, xAmount, yAmount, zAmount)

RECURSIVE FillZ(_, _, _, _, _, _, _, _)
FillZ(z, sf, skeleton, from, cubeSize, xAmount, yAmount, zAmount) ==
  IF ~sf.assertOk \/ z >= zAmount + 1 THEN sf
  ELSE FillZ(z + 1,
             FillY(0, z, sf, skeleton, from, cubeSize, xAmount, yAmount, zAmount),
             skeleton, from, cubeSize, xAmount, yAmount, zAmount)

fillScalarField(sf, skeleton, from, cubeSize, xAmount, yAmount, zAmount) ==
  FillZ(0, sf, skeleton, from, cubeSize, xAmount, yAmount, zAmount)

(***************************************************************************)
(* Marching cubes                                                           *)
(***************************************************************************)
Pow2(i) == 2 ^ i

HasBit(flags, i) == (flags \div Pow2(i)) % 2 = 1

(* The local copy of cell (x, y, z): corner positions, corner values read   *)
(* with scalarField.at(index), and iFlagIndex with bit i set iff            *)
(* val[i] <= mTargetValue.  inRange tells whether every at() was in range.  *)
MakeCell(x, y, z, sf, from, cubeSize, targetValue, xAmount, yAmount, zAmount) ==
  LET index == [ i \in 0..7 |->
                   getMapIndex(x + cubeOffsets[i + 1][1],
                               y + cubeOffsets[i + 1][2],
                               z + cubeOffsets[i + 1][3],
                               xAmount + 1, yAmount + 1, zAmount + 1) ]
      inRange == \A i \in 0..7 : index[i] \in DOMAIN sf.field
      val == [ i \in 0..7 |-> IF index[i] \in DOMAIN sf.field
                              THEN sf.field[index[i]] ELSE -1 ]
      bit == [ i \in 0..7 |-> IF val[i] <= targetValue THEN Pow2(i) ELSE 0 ]
  IN  [ p |-> [ i \in 0..7 |->
                  Vector3(from[1] + cubeSize * (x + cubeOffsets[i + 1][1]),
                          from[2] + cubeSize * (y + cubeOffsets[i + 1][2]),
                          from[3] + cubeSize * (z + cubeOffsets[i + 1][3])) ],
        val |-> val,
        iFlagIndex |-> bit[0] + bit[1] + bit[2] + bit[3]
                       + bit[4] + bit[5] + bit[6] + bit[7],
        inRange |-> inRange,
        written |-> \A i \in 0..7 :
                      index[i] \in DOMAIN sf.writes /\ sf.writes[index[i]] >= 1 ]

(* The crossing point of edge iEdge: with p1, p2 its corners,               *)
(* length = val[p1] / (val[p2] + val[p1]) and the point is                  *)
(* p[p1] + length * (p[p2] - p[p1]).                                        *)
EdgeVertex(cell, iEdge) ==
  LET p1 == a2iEdgeConnection[iEdge + 1][1]
      p2 == a2iEdgeConnection[iEdge + 1][2]
      length == QuotR(cell.val[p1] * VQ, cell.val[p2] + cell.val[p1])
      d == VSub(cell.p[p2], cell.p[p1])
  IN  VAdd(cell.p[p1],
           << QuotR(length * d[1], VQ), QuotR(length * d[2], VQ),
              QuotR(length * d[3], VQ) >>)

\* an entry of asEdgeVertex that Triangulate never assigned
Unassigned == << FLT_MAX, FLT_MAX, FLT_MAX >>

RECURSIVE TriangleLoop(_, _, _, _)
TriangleLoop(iTriangle, row, asEdgeVertex, triangles) ==
  IF iTriangle >= 5 \/ row[3 * iTriangle + 1] < 0 THEN triangles
  ELSE TriangleLoop(iTriangle + 1, row, asEdgeVertex,
         Append(triangles,
                [ iCorner \in 0..2 |-> asEdgeVertex[row[3 * iTriangle + iCorner + 1]] ]))

\* Triangulate: the triangles of one cell, at most five, corners as positions
Triangulate(cell) ==
  LET iEdgeFlags == aiCubeEdgeFlags[cell.iFlagIndex + 1]
  IN  IF iEdgeFlags = 0 THEN << >>
      ELSE LET asEdgeVertex ==
                 [ iEdge \in 0..11 |->
                     IF HasBit(iEdgeFlags, iEdge) THEN EdgeVertex(cell, iEdge)
                                                  ELSE Unassigned ]
           IN  TriangleLoop(0, a2iTriangleConnectionTable[cell.iFlagIndex + 1],
                            asEdgeVertex, << >>)

\* mVertexHash.find(v) != mVertexHash.end()
HashFindNever(hash, v) == FALSE

HashFind(hash, v) == v \in DOMAIN hash

(* One corner of one triangle: look the position up in mVertexHash; a new   *)
(* one gets index iVertexIndex and is pushed with its normal, a known one   *)
(* gives its stored index.                                                  *)
EmitCorner(m, v, skeleton, cubeSize) ==
  IF ~HashFind(m.hash, v)
  THEN [ m EXCEPT !.hash         = (v :> m.iVertexIndex) @@ m.hash,
                  !.vertices     = Append(m.vertices, v),
                  !.normals      = Append(m.normals, getNormal(skeleton, cubeSize, v)),
                  !.corner       = m.iVertexIndex,
                  !.iVertexIndex = m.iVertexIndex + 1 ]
  ELSE [ m EXCEPT !.corner = m.hash[v] ]

EmitTriangle(m, triangle, skeleton, cubeSize) ==
  LET m0 == EmitCorner(m, triangle[0], skeleton, cubeSize)
      m1 == EmitCorner(m0, triangle[1], skeleton, cubeSize)
      m2 == EmitCorner(m1, triangle[2], skeleton, cubeSize)
  IN  [ m2 EXCEPT !.triangles = Append(m2.triangles,
                                       << m0.corner, m1.corner, m2.corner >>) ]

RECURSIVE EmitTriangles(_, _, _, _, _)
EmitTriangles(m, triangles, iTriangle, skeleton, cubeSize) ==
  IF iTriangle > Len(triangles) THEN m
  ELSE EmitTriangles(EmitTriangle(m, triangles[iTriangle], skeleton, cubeSize),
                     triangles, iTriangle + 1, skeleton, cubeSize)

(* generateObject's loop nest over the cells: x runs fastest, then y, then  *)
(* z.  An at() out of range throws, and the march ends there.               *)
RECURSIVE MarchX(_, _, _, _, _, _, _, _, _, _, _, _)
MarchX(x, y, z, m, sf, skeleton, from, cubeSize, targetValue, xAmount, yAmount, zAmount) ==
  IF ~m.readsOk \/ x >= xAmount THEN m
  ELSE LET cell == MakeCell(x, y, z, sf, from, cubeSize, targetValue,
                            xAmount, yAmount, zAmount)
       IN  MarchX(x + 1, y, z,
                  IF ~cell.inRange THEN [ m EXCEPT !.readsOk = FALSE ]
                  ELSE EmitTriangles([ m EXCEPT !.readsWritten = @ /\ cell.written ],
                                     Triangulate(cell), 1, skeleton, cubeSize),
                  sf, skeleton, from, cubeSize, targetValue, xAmount, yAmount, zAmount)

RECURSIVE MarchY(_, _, _, _, _, _, _, _, _, _, _)
MarchY(y, z, m, sf, skeleton, from, cubeSize, targetValue, xAmount, yAmount, zAmount) ==
  IF ~m.readsOk \/ y >= yAmount THEN m
  ELSE MarchY(y + 1, z,
              MarchX(0, y, z, m, sf, skeleton, from, cubeSize, targetValue,
                     xAmount, yAmount, zAmount),
              sf, skeleton, from, cubeSize, targetValue, xAmount, yAmount, zAmount)

RECURSIVE MarchZ(_, _, _, _, _, _, _, _, _, _)
MarchZ(z, m, sf, skeleton, from, cubeSize, targetValue, xAmount, yAmount, zAmount) ==
  IF ~m.readsOk \/ z >= zAmount THEN m
  ELSE MarchZ(z + 1,
              MarchY(0, z, m, sf, skeleton, from, cubeSize, targetValue,
                     xAmount, yAmount, zAmount),
              sf, skeleton, from, cubeSize, targetValue, xAmount, yAmount, zAmount)

\* the object's size holds at least one voxel on every axis
BoxHoldsVoxelLoose(boundingBox, cubeSize) ==
  /\ boundingBox[1] >= cubeSize
  /\ boundingBox[2] >= cubeSize
  /\ boundingBox[3] >= cubeSize

BoxHoldsVoxel(boundingBox, cubeSize) ==
  /\ boundingBox[1] > cubeSize
  /\ boundingBox[2] > cubeSize
  /\ boundingBox[3] > cubeSize

(* generateObject, on the members as they are when it is called.  The       *)
(* result holds the members it changes and the scalarField it used.         *)
generateObject(skeleton, cubeSize, targetValue, from, to, vertices, normals, triangles, hash) ==
  LET boundingBox == VSub(to, from)
      m0 == [ vertices |-> vertices, normals |-> normals, triangles |-> triangles,
              hash |-> hash, iVertexIndex |-> 0, corner |-> -1,
              readsOk |-> TRUE, readsWritten |-> TRUE ]
  IN  IF BoxHoldsVoxel(boundingBox, cubeSize)
      THEN LET xAmount == boundingBox[1] \div cubeSize + 1
               yAmount == boundingBox[2] \div cubeSize + 1
               zAmount == boundingBox[3] \div cubeSize + 1
               sf == fillScalarField(
                       NewScalarField((xAmount + 1) * (yAmount + 1) * (zAmount + 1)),
                       skeleton, from, cubeSize, xAmount, yAmount, zAmount)
               m  == IF sf.assertOk
                     THEN MarchZ(0, m0, sf, skeleton, from, cubeSize, targetValue,
                                    xAmount, yAmount, zAmount)
                     ELSE m0
           IN  [ mesh |-> m,
                 sf   |-> [ sf EXCEPT !.readsOk = m.readsOk /\ m.readsWritten ],
                 ok   |-> sf.assertOk /\ m.readsOk ]
      ELSE [ mesh |-> m0, sf |-> NoScalarField, ok |-> TRUE ]

(***************************************************************************)
(* The calls                                                                *)
(***************************************************************************)
\* mExtendsFrom = FLT_MAX, mExtendsTo = -FLT_MAX
NoExtends == [ from |-> << FLT_MAX, FLT_MAX, FLT_MAX >>,
               to   |-> << -FLT_MAX, -FLT_MAX, -FLT_MAX >> ]

Larger(a, b) == IF a > b THEN a ELSE b

Smaller(a, b) == IF a < b THEN a ELSE b

\* calculate's loop over the nodes: the total bounding box
RECURSIVE BoundingLoop(_, _, _)
BoundingLoop(skeleton, i, ext) ==
  IF i > Len(skeleton) THEN ext
  ELSE LET n == skeleton[i]
       IN  BoundingLoop(skeleton, i + 1,
             [ to   |-> << Larger(n.extendsTo[1], ext.to[1]),
                           Larger(n.extendsTo[2], ext.to[2]),
                           Larger(n.extendsTo[3], ext.to[3]) >>,
               from |-> << Smaller(n.extendsFrom[1], ext.from[1]),
                           Smaller(n.extendsFrom[2], ext.from[2]),
                           Smaller(n.extendsFrom[3], ext.from[3]) >> ])

\* what calculate asserts of its parameters
ParametersMakeSenseNoLowerBound(cubeSize, blend) ==
  cubeSize > 0 /\ blend <= NONE

ParametersMakeSense(cubeSize, blend) ==
  cubeSize > 0 /\ (blend >= 0 /\ blend <= NONE)

\* the members generateObject changes, all cleared
ClearedMesh ==
  [ vertices |-> << >>, normals |-> << >>, triangles |-> << >>, hash |-> << >>,
    iVertexIndex |-> 0, corner |-> -1, readsOk |-> TRUE, readsWritten |-> TRUE ]

(* calculate, up to its return or to the assert that fails: the extents,    *)
(* the mesh and whether the call came back.                                 *)
CalculateResult(skeleton, cubeSize, blend, targetValue) ==
  IF ~ParametersMakeSense(cubeSize, blend)
  THEN [ ext |-> NoExtends, mesh |-> ClearedMesh, sf |-> NoScalarField, ok |-> FALSE ]
  ELSE IF Len(skeleton) > 0
  THEN LET ext == BoundingLoop(skeleton, 1, NoExtends)
           g   == generateObject(skeleton, cubeSize, targetValue, ext.from, ext.to,
                                 << >>, << >>, << >>, << >>)
       IN  [ ext |-> ext, mesh |-> g.mesh, sf |-> g.sf, ok |-> g.ok ]
  ELSE [ ext |-> NoExtends, mesh |-> ClearedMesh, sf |-> NoScalarField, ok |-> TRUE ]

calculate(skeleton, cubeSize, blend, targetValue) ==
  /\ ~aborted
  /\ \E r \in { CalculateResult(skeleton, cubeSize, blend, targetValue) } :
      /\ mSkeleton' = skeleton
      /\ mCubeSize' = cubeSize
      /\ mBlendingFunction' = blend
      /\ mTargetValue' = targetValue
      /\ mVertices' = r.mesh.vertices
      /\ mNormals' = r.mesh.normals
      /\ mTriangles' = r.mesh.triangles
      /\ mVertexHash' = r.mesh.hash
      /\ mExtendsFrom' = r.ext.from
      /\ mExtendsTo' = r.ext.to
      /\ aborted' = ~r.ok
      /\ lastCall' = "calculate"
      /\ nUpdates' = 0
      /\ scalarLog' = r.sf

updateKeepNormals(skeleton) ==
  /\ ~aborted
  /\ lastCall # "none"
  /\ nUpdates < MaxUpdates
  /\ \E g \in { generateObject(skeleton, mCubeSize, mTargetValue, mExtendsFrom,
                                mExtendsTo, << >>, mNormals, mTriangles, mVertexHash) } :
      /\ mSkeleton' = skeleton
      /\ mVertices' = g.mesh.vertices
      /\ mNormals' = g.mesh.normals
      /\ mTriangles' = g.mesh.triangles
      /\ mVertexHash' = g.mesh.hash
      /\ aborted' = ~g.ok
      /\ lastCall' = "update"
      /\ nUpdates' = nUpdates + 1
      /\ scalarLog' = g.sf
      /\ UNCHANGED << mCubeSize, mBlendingFunction, mTargetValue, mExtendsFrom, mExtendsTo >>

(* update: mVertices and mNormals are cleared, mTriangles, mVertexHash and  *)
(* the extents are the ones the earlier calls left.  The host calls update  *)
(* only after GameState::init has called calculate.                         *)
update(skeleton) ==
  /\ ~aborted
  /\ lastCall # "none"
  /\ nUpdates < MaxUpdates
  /\ \E g \in { generateObject(skeleton, mCubeSize, mTargetValue, mExtendsFrom,
                                mExtendsTo, << >>, << >>, mTriangles, mVertexHash) } :
      /\ mSkeleton' = skeleton
      /\ mVertices' = g.mesh.vertices
      /\ mNormals' = g.mesh.normals
      /\ mTriangles' = g.mesh.triangles
      /\ mVertexHash' = g.mesh.hash
      /\ aborted' = ~g.ok
      /\ lastCall' = "update"
      /\ nUpdates' = nUpdates + 1
      /\ scalarLog' = g.sf
      /\ UNCHANGED << mCubeSize, mBlendingFunction, mTargetValue, mExtendsFrom, mExtendsTo >>

(***************************************************************************)
(* Inputs                                                                   *)
(***************************************************************************)
NodeA == SphereNode(<< 0, 0, 0 >>, 5)

NodeB == SphereNode(<< 4, 0, 0 >>, 5)

NodeT == SphereNode(<< 0, 0, 0 >>, 2)

Skeletons == { << >>, << NodeA >>, << NodeB, NodeA >>, << NodeT >> }

\* calculate's cubeSize, blend and targetValue
Settings ==
  { << 3, SPORE, 5 >>, << 4, NONE, 50 >>, << 12, SPORE, 5 >>,
    << 0, SPORE, 5 >>, << -4, SPORE, 5 >>, << 4, -1, 5 >>, << 4, NONE + 1, 5 >> }

(***************************************************************************)
(* The specification                                                        *)
(***************************************************************************)
Init ==
  /\ mSkeleton = << >>
  /\ mCubeSize = 0
  /\ mBlendingFunction = SPORE
  /\ mTargetValue = 0
  /\ mVertices = << >>
  /\ mNormals = << >>
  /\ mTriangles = << >>
  /\ mVertexHash = << >>
  /\ mExtendsFrom = << 0, 0, 0 >>
  /\ mExtendsTo = << 0, 0, 0 >>
  /\ aborted = FALSE
  /\ lastCall = "none"
  /\ nUpdates = 0
  /\ scalarLog = NoScalarField

Next ==
  \/ \E skeleton \in Skeletons, s \in Settings :
       calculate(skeleton, s[1], s[2], s[3])
  \/ \E skeleton \in Skeletons : update(skeleton)

Spec == Init /\ [][Next]_vars

(***************************************************************************)
(* Properties                                                               *)
(***************************************************************************)
Returned == lastCall # "none" /\ ~aborted

MeshEmpty == mVertices = << >> /\ mNormals = << >> /\ mTriangles = << >>

(* C1: whenever a calculate or update call has returned, every index of     *)
(* every triangle in mTriangles lies in [0, |mVertices|).                   *)
C1_IndicesInRange ==
  Returned =>
    \A t \in 1..Len(mTriangles) : \A c \in 1..3 :
      0 <= mTriangles[t][c] /\ mTriangles[t][c] < Len(mVertices)

(* C2: after update(s) the vertices, normals and triangles are exactly      *)
(* those calculate(s, cubeSize, blend, targetValue) produces with the       *)
(* configured cubeSize, blend and targetValue.                              *)
C2_UpdateEqualsBuild ==
  (lastCall = "update" /\ ~aborted) =>
    LET b == CalculateResult(mSkeleton, mCubeSize, mBlendingFunction, mTargetValue)
    IN  /\ mVertices = b.mesh.vertices
        /\ mNormals = b.mesh.normals
        /\ mTriangles = b.mesh.triangles

(* C3: mNormals is as long as mVertices, and mNormals[i] is the normal      *)
(* getNormal computes for mVertices[i] with the current skeleton and cube   *)
(* size.                                                                    *)
C3_NormalsParallelVertices ==
  /\ Len(mNormals) = Len(mVertices)
  /\ \A i \in 1..Len(mVertices) :
       i <= Len(mNormals)
       /\ mNormals[i] = getNormal(mSkeleton, mCubeSize, mVertices[i])

C3_Witness ==
  /\ lastCall = "update"
  /\ ~aborted
  /\ Len(mVertices) > 0
  /\ \E i \in 1..Len(mNormals) : mNormals[i] # << 0, 0, 0 >>

(* C4: no position appears twice in mVertices; the key of every vertex is   *)
(* in mVertexHash with that vertex's index, and every triangle corner       *)
(* carries an index stored in mVertexHash.                                  *)
C4_VerticesDistinct ==
  /\ \A i \in 1..Len(mVertices) : \A j \in 1..Len(mVertices) :
       i # j => mVertices[i] # mVertices[j]
  /\ \A i \in 1..Len(mVertices) :
       mVertices[i] \in DOMAIN mVertexHash /\ mVertexHash[mVertices[i]] = i - 1
  /\ \A t \in 1..Len(mTriangles) : \A c \in 1..3 :
       \E v \in DOMAIN mVertexHash : mVertexHash[v] = mTriangles[t][c]

\* an update found new positions, and corners shared vertices
C4_Witness ==
  /\ lastCall = "update"
  /\ ~aborted
  /\ Len(mVertices) > 0
  /\ 3 * Len(mTriangles) > Cardinality(DOMAIN mVertexHash)

(* C5: a calculate or update call with a skeleton of no nodes returns with  *)
(* no vertices and no triangles.                                            *)
C5_EmptySkeletonEmptyMesh ==
  (Returned /\ Len(mSkeleton) = 0) =>
    (Len(mVertices) = 0 /\ Len(mTriangles) = 0)

RECURSIVE SumOfNodes(_, _, _)
SumOfNodes(skeleton, pos, i) ==
  IF i > Len(skeleton) THEN 0
  ELSE IsoValue(<< skeleton[i] >>, pos) + SumOfNodes(skeleton, pos, i + 1)

(* C6: IsoValue(p) is the sum over all nodes of the skeleton of the         *)
(* single-node results: every value the scalar field holds is that sum at   *)
(* the slot's corner.                                                       *)
C6_IsoValueSumsAllNodes ==
  (scalarLog.allocated /\ scalarLog.assertOk) =>
    \A i \in DOMAIN scalarLog.field :
      scalarLog.field[i] = SumOfNodes(mSkeleton, scalarLog.coords[i], 1)

InvalidAsClaimed ==
  mCubeSize <= 0 \/ mBlendingFunction < 0 \/ mBlendingFunction >= NONE

InvalidAsAsserted ==
  mCubeSize <= 0 \/ mBlendingFunction < 0 \/ mBlendingFunction > NONE

(* C7, as claimed: calculate with cubeSize <= 0 or with blend outside       *)
(* 0 <= blend < NONE, blend = NONE included, aborts.                        *)
C7_InvalidConfigurationAborts ==
  (lastCall = "calculate" /\ InvalidAsClaimed) => aborted

(* C7, amended: with assertions enabled, calculate with cubeSize <= 0 or    *)
(* with blend outside 0 <= blend <= NONE aborts and leaves no mesh;         *)
(* blend = NONE is accepted.                                                *)
C7_InvalidConfigurationAbortsAmended ==
  /\ (lastCall = "calculate" /\ InvalidAsAsserted) =>
       (aborted /\ MeshEmpty /\ ~scalarLog.allocated)
  /\ (lastCall = "calculate" /\ mCubeSize > 0 /\ mBlendingFunction = NONE) =>
       ~aborted

C7_Witness ==
  lastCall = "calculate" /\ aborted /\ mBlendingFunction < 0

DegenerateBox ==
  \E a \in 1..3 : mExtendsTo[a] - mExtendsFrom[a] <= mCubeSize

(* C8: calculate with a skeleton of at least one node whose bounding box    *)
(* has an axis no longer than cubeSize allocates no scalar field and leaves *)
(* vertices, normals and triangles empty.                                   *)
C8_DegenerateBoxSkipsGeneration ==
  (lastCall = "calculate" /\ ~aborted /\ Len(mSkeleton) > 0 /\ DegenerateBox) =>
    (~scalarLog.allocated /\ MeshEmpty)

\* the box is longer than a cube on one axis and not on another
C8_Witness ==
  /\ lastCall = "calculate"
  /\ ~aborted
  /\ Len(mSkeleton) > 0
  /\ DegenerateBox
  /\ \E a \in 1..3 : mExtendsTo[a] - mExtendsFrom[a] > mCubeSize

(* C9: when a scalar field was allocated it has (nx+1)(ny+1)(nz+1) slots,   *)
(* each written exactly once (no assert failed), slot                       *)
(* z(nx+1)(ny+1) + y(nx+1) + x holds the value at corner (x, y, z), and     *)
(* every corner read of the march was in range and of a written slot.       *)
C9_ScalarFieldWrittenOnce ==
  scalarLog.allocated =>
    LET W == (mExtendsTo[1] - mExtendsFrom[1]) \div mCubeSize + 2
        H == (mExtendsTo[2] - mExtendsFrom[2]) \div mCubeSize + 2
        D == (mExtendsTo[3] - mExtendsFrom[3]) \div mCubeSize + 2
    IN  /\ W >= 2 /\ H >= 2 /\ D >= 2
        /\ DOMAIN scalarLog.field = 0..(W * H * D - 1)
        /\ scalarLog.assertOk
        /\ scalarLog.readsOk
        /\ \A i \in 0..(W * H * D - 1) : scalarLog.writes[i] = 1
        /\ \A x \in 0..(W - 1) : \A y \in 0..(H - 1) : \A z \in 0..(D - 1) :
             LET pos == << mExtendsFrom[1] + mCubeSize * x,
                           mExtendsFrom[2] + mCubeSize * y,
                           mExtendsFrom[3] + mCubeSize * z >>
             IN  /\ scalarLog.coords[z * W * H + y * W + x] = pos
                 /\ scalarLog.field[z * W * H + y * W + x] = IsoValue(mSkeleton, pos)

\* a grid that is not a cube, marched, with triangles found
C9_Witness ==
  /\ scalarLog.allocated
  /\ ~aborted
  /\ mExtendsTo[1] - mExtendsFrom[1] # mExtendsTo[2] - mExtendsFrom[2]
  /\ Len(mVertices) > 0

(* C10: the six samples of the normal of a vertex v are v -/+ h along x,    *)
(* v -/+ h along y and v -/+ h along z, with h the cube size.               *)
C10_CentralDifferences ==
  \A i \in 1..Len(mVertices) :
    LET v == mVertices[i]
        h == mCubeSize
    IN  NormalSamples(v, h) =
          << << v[1] - h, v[2], v[3] >>, << v[1] + h, v[2], v[3] >>,
             << v[1], v[2] - h, v[3] >>, << v[1], v[2] + h, v[3] >>,
             << v[1], v[2], v[3] - h >>, << v[1], v[2], v[3] + h >> >>
====
